---------------------------- MODULE Spec2Model ----------------------------
(***************************************************************************)
(* State-machine model of the game logic of src/src/App.jsx: the zustand   *)
(* store (score, timeLeft, gameOver), the per-frame round clock in Scene,  *)
(* the scoring trigger of Hoop (onCollideBegin / onCollideEnd with the     *)
(* single `scorable` ref), and the balls that Court mounts.                *)
(*                                                                         *)
(* Floating-point quantities are represented as integers in fixed units:   *)
(* clock.elapsedTime in units of 1/TimeScale second, a body's vertical     *)
(* velocity in units of 1/VelocityScale.  Every threshold of the code is   *)
(* written as a multiple of the scale, so the formulas do not depend on    *)
(* the resolution chosen.                                                  *)
(***************************************************************************)
EXTENDS Integers, Naturals, Sequences, FiniteSets, TLC

\* ------------------------------------------------------------------ bounds
\* Resolution of clock.elapsedTime: units per second.
TimeScale == 10
\* Resolution of velocity.current.y: units per 1.0 of velocity.
VelocityScale == 2
\* Seconds of clock time modelled past the end of the round.
ExtraSeconds == 2
\* Number of Ball components Court may have mounted.
MaxBalls == 2
\* Cap on the score counter.
MaxScore == 3

\* -------------------------------------------------------------- constants
\* App.jsx line 20
ROUND_DURATION == 10

\* App.jsx line 17 (COLORS.ball) and line 146 (setHex(0xc698d))
BallColor == "#f55951"
ScoredColor == "#0c698d"

\* Largest clock value modelled, and the largest step of the clock between
\* two frames (a frame may be later than TimeScale units after the previous
\* one: requestAnimationFrame pauses while the page is hidden).
MaxElapsed == (ROUND_DURATION + 1 + ExtraSeconds) * TimeScale
MaxDelta == TimeScale + 2

\* Vertical velocities a body may have when an event fires:
\* -3, -1, 0, 0.5 (rounded down to the resolution), 1, 2, 4.
Velocity ==
  { -3 * VelocityScale, -1 * VelocityScale, 0, VelocityScale \div 2,
    VelocityScale, 2 * VelocityScale, 4 * VelocityScale }

Bodies == 1..MaxBalls

\* lastEvent records one collision event of the trigger: its kind, the body,
\* the velocity the handler read, the value of scorable.current the handler
\* found, and, for an end event, whether the event just before it was the
\* same body's begin event (paired) and the velocity of that begin event.
NoEvent ==
  [kind |-> "none", body |-> 0, vy |-> 0, armed |-> FALSE, paired |-> FALSE,
   entryVy |-> 0]

VARIABLES
  score,         \* store.score
  timeLeft,      \* store.timeLeft
  gameOver,      \* store.gameOver
  sceneGameOver, \* the gameOver value Scene's last render captured (line 193)
  elapsedTime,   \* clock.elapsedTime, in 1/TimeScale seconds
  scorable,      \* Hoop's scorable.current
  balls,         \* number of Ball components mounted by Court
  color,         \* material colour of each ball
  overlapping,   \* physics engine: which bodies overlap the trigger box
  ownEntryDown,  \* history: did the body's own last entry have velocity < 0
  lastEvent,     \* history: the most recent collision event of the trigger
  addPointCalls  \* history: calls of addPoint since the last resetScore

vars ==
  << score, timeLeft, gameOver, sceneGameOver, elapsedTime, scorable, balls,
     color, overlapping, ownEntryDown, lastEvent, addPointCalls >>

storeVars == << score, timeLeft, gameOver, addPointCalls >>
hoopVars == << scorable, color, overlapping, ownEntryDown, lastEvent >>

\* ------------------------------------------------------------ pure helpers
\* parseInt(x) of a non-negative float (line 199): the number is printed and
\* its integer prefix is read, which truncates toward zero.  (Values below
\* 1e-6 print in exponent form; the browser clock's resolution of 5 us or
\* more keeps elapsedTime out of that range.)
ParseIntCeil(x) ==
  IF x >= 0 THEN (x + TimeScale - 1) \div TimeScale
            ELSE -((-x) \div TimeScale)

ParseInt(x) ==
  IF x >= 0 THEN x \div TimeScale ELSE -((-x) \div TimeScale)

\* clock.elapsedTime > ROUND_DURATION + 1 (line 196)
RoundExpiredInclusive(e) == e >= (ROUND_DURATION + 1) * TimeScale

RoundExpired(e) == e > (ROUND_DURATION + 1) * TimeScale

\* collision.body.velocity.current.y < 0 (line 136)
DroppingOrStill(vy) == vy <= 0

Dropping(vy) == vy < 0

\* scorable.current && collision.body.velocity.current.y < 1 (line 144)
QualifiesUnarmed(armed, vy) == vy < 1 * VelocityScale

QualifiesAtThreshold(armed, vy) == armed /\ vy <= 1 * VelocityScale

Qualifies(armed, vy) == armed /\ vy < 1 * VelocityScale

\* state.score + 1 (line 24)
AddPointTwice(s) == s + 2

AddPoint(s) == s + 1

\* ------------------------------------------------------------------- Init
\* The store's initial state (lines 22-30), Hoop's ref (line 100) and the one
\* ball Court's mount effect adds (lines 171-173).
Init ==
  /\ score = 0
  /\ timeLeft = ROUND_DURATION
  /\ gameOver = FALSE
  /\ sceneGameOver = FALSE
  /\ elapsedTime = 0
  /\ scorable = FALSE
  /\ balls = 1
  /\ color = [b \in Bodies |-> BallColor]
  /\ overlapping = [b \in Bodies |-> FALSE]
  /\ ownEntryDown = [b \in Bodies |-> FALSE]
  /\ lastEvent = NoEvent
  /\ addPointCalls = 0


\* ---------------------------------------------------------------- actions
\* One rendered frame (lines 195-201): the render loop advances the clock by
\* d and runs Scene's useFrame callback, which reads the gameOver value of
\* the render that created it.
Frame(d) ==
  /\ elapsedTime + d <= MaxElapsed
  /\ elapsedTime' = elapsedTime + d
  /\ IF ~sceneGameOver /\ RoundExpired(elapsedTime')
       THEN /\ gameOver' = TRUE
            /\ UNCHANGED timeLeft
       ELSE IF ~sceneGameOver
         THEN /\ timeLeft' = ROUND_DURATION - ParseInt(elapsedTime')
              /\ UNCHANGED gameOver
         ELSE UNCHANGED << timeLeft, gameOver >>
  /\ UNCHANGED << score, addPointCalls, sceneGameOver, balls >>
  /\ UNCHANGED hoopVars

\* Scene re-renders after the store changed (line 193): from then on the
\* frame callback sees the store's gameOver.
Render ==
  /\ sceneGameOver # gameOver
  /\ sceneGameOver' = gameOver
  /\ UNCHANGED << score, addPointCalls, timeLeft, gameOver, elapsedTime, balls >>
  /\ UNCHANGED hoopVars

\* Trigger box onCollideBegin (lines 134-141): body b starts to overlap the
\* trigger while moving with vertical velocity vy.
OnCollideBegin(b, vy) ==
  /\ b <= balls
  /\ ~overlapping[b]
  /\ overlapping' = [overlapping EXCEPT ![b] = TRUE]
  /\ scorable' = IF Dropping(vy) THEN TRUE ELSE FALSE
  /\ ownEntryDown' = [ownEntryDown EXCEPT ![b] = (vy < 0)]
  /\ lastEvent' =
       [kind |-> "begin", body |-> b, vy |-> vy, armed |-> scorable,
        paired |-> FALSE, entryVy |-> vy]
  /\ UNCHANGED << color, balls >>
  /\ UNCHANGED storeVars
  /\ UNCHANGED << sceneGameOver, elapsedTime >>

\* Trigger box onCollideEnd (lines 142-149): body b stops overlapping the
\* trigger while moving with vertical velocity vy.
OnCollideEnd(b, vy) ==
  /\ b <= balls
  /\ overlapping[b]
  /\ score < MaxScore
  /\ overlapping' = [overlapping EXCEPT ![b] = FALSE]
  /\ IF Qualifies(scorable, vy)
       THEN /\ score' = AddPoint(score)
            /\ addPointCalls' = addPointCalls + 1
            /\ color' = [color EXCEPT ![b] = ScoredColor]
       ELSE UNCHANGED << score, addPointCalls, color >>
  /\ scorable' = FALSE
  /\ ownEntryDown' = [ownEntryDown EXCEPT ![b] = FALSE]
  /\ lastEvent' =
       LET own == lastEvent.kind = "begin" /\ lastEvent.body = b
       IN  [kind |-> "end", body |-> b, vy |-> vy, armed |-> scorable,
            paired |-> own, entryVy |-> IF own THEN lastEvent.vy ELSE 0]
  /\ UNCHANGED << timeLeft, gameOver, sceneGameOver, elapsedTime, balls >>

\* Ball.shoot (lines 47-50): a click on ball b applies the impulse (physics,
\* seen here only through the velocities of later events) and calls addBall
\* (line 169), which mounts one more ball.
Shoot(b) ==
  /\ b <= balls
  /\ balls < MaxBalls
  /\ balls' = balls + 1
  /\ UNCHANGED storeVars
  /\ UNCHANGED << sceneGameOver, elapsedTime >>
  /\ UNCHANGED hoopVars

\* store.resetScore (line 25), callable by any consumer of the store.
ResetScore ==
  /\ score' = 0
  /\ addPointCalls' = 0
  /\ UNCHANGED << timeLeft, gameOver, sceneGameOver, elapsedTime, balls >>
  /\ UNCHANGED hoopVars

\* ---------------------------------------------------------- specifications
FrameStep == \E d \in 0..MaxDelta : Frame(d)
BeginStep == \E b \in Bodies, vy \in Velocity : OnCollideBegin(b, vy)
EndStep == \E b \in Bodies, vy \in Velocity : OnCollideEnd(b, vy)
ShootStep == \E b \in Bodies : Shoot(b)

\* The whole game.
Next ==
  \/ FrameStep
  \/ Render
  \/ BeginStep
  \/ EndStep
  \/ ShootStep
  \/ ResetScore

Spec == Init /\ [][Next]_vars

\* The round clock alone: frames and re-renders of Scene.
ClockNext ==
  \/ FrameStep
  \/ Render

ClockSpec == Init /\ [][ClockNext]_vars

\* The render loop keeps requesting frames, and React completes a scheduled
\* re-render.
FairClockSpec ==
  /\ Init
  /\ [][ClockNext]_vars
  /\ WF_vars(\E d \in 1..MaxDelta : Frame(d))
  /\ WF_vars(Render)

\* The scoring trigger and the score alone: collisions, shots and resets.
HoopNext ==
  \/ BeginStep
  \/ EndStep
  \/ ShootStep
  \/ ResetScore

HoopSpec == Init /\ [][HoopNext]_vars


\* ------------------------------------------------------------------ claims
\* C1: when a body's end event directly follows its own begin event (entry
\* velocity v1, exit velocity v2, no other collision event in between), the
\* score rises by exactly 1 and the body is recoloured if and only if v1 < 0
\* and v2 < 1; otherwise the score and the colours are unchanged.
C1_SinglePassScoresIff ==
  [][\A b \in Bodies, v2 \in Velocity :
       (OnCollideEnd(b, v2) /\ lastEvent.kind = "begin" /\ lastEvent.body = b)
         => IF lastEvent.vy < 0 /\ v2 < 1 * VelocityScale
              THEN /\ score' = score + 1
                   /\ color' = [color EXCEPT ![b] = ScoredColor]
              ELSE /\ score' = score
                   /\ color' = color]_vars

\* A pass with entry velocity -3 and exit velocity 0.5 has just scored.
C1_Witness ==
  /\ lastEvent.kind = "end"
  /\ lastEvent.paired
  /\ lastEvent.entryVy = -3 * VelocityScale
  /\ lastEvent.vy = VelocityScale \div 2
  /\ color[lastEvent.body] = ScoredColor
  /\ score = 1
  /\ addPointCalls = 1

\* C2: an end event that finds scorable false changes neither the score nor
\* any colour, whatever the exit velocity; scorable is false initially and
\* after every end event.
C2_UnarmedExitNeverScores ==
  [][/\ lastEvent.kind # "begin" => ~scorable
     /\ lastEvent'.kind # "begin" => ~scorable'
     /\ \A b \in Bodies, vy \in Velocity :
          (OnCollideEnd(b, vy) /\ ~scorable)
            => (score' = score /\ color' = color)]_vars

\* An end event found the region un-armed while the body was moving down,
\* and the body was not recoloured.
C2_Witness ==
  /\ lastEvent.kind = "end"
  /\ ~lastEvent.armed
  /\ lastEvent.vy < 0
  /\ color[lastEvent.body] = BallColor
  /\ score = 0
  /\ addPointCalls = 0

\* C3: once gameOver is true, no begin or end event changes the score.
C3_NoScoringAfterGameOver ==
  [][(gameOver /\ (BeginStep \/ EndStep)) => score' = score]_vars

\* C4: gameOver is false at the start, is true exactly when a frame has
\* carried an elapsed time above ROUND_DURATION + 1, and never returns to
\* false.
C4_RoundClockTerminal ==
  [][/\ gameOver <=> elapsedTime > (ROUND_DURATION + 1) * TimeScale
     /\ gameOver' <=> elapsedTime' > (ROUND_DURATION + 1) * TimeScale
     /\ gameOver => gameOver']_vars

\* Frames kept coming after the round ended, and gameOver stayed true.
C4_Witness ==
  /\ gameOver
  /\ sceneGameOver
  /\ elapsedTime = MaxElapsed

\* C5: after a frame with elapsed time e <= ROUND_DURATION, timeLeft is
\* ROUND_DURATION - floor(e) and gameOver is false; strictly between
\* ROUND_DURATION and ROUND_DURATION + 1 (such as 10.9) timeLeft is 0 and
\* gameOver is false.
C5_CountdownWhileRunning ==
  /\ elapsedTime <= ROUND_DURATION * TimeScale
       => /\ timeLeft = ROUND_DURATION - (elapsedTime \div TimeScale)
          /\ ~gameOver
  /\ ( /\ elapsedTime > ROUND_DURATION * TimeScale
       /\ elapsedTime < (ROUND_DURATION + 1) * TimeScale )
       => /\ timeLeft = 0
          /\ ~gameOver

\* The last frame was at the last instant before ROUND_DURATION + 1 (10.9).
C5_Witness ==
  /\ elapsedTime = (ROUND_DURATION + 1) * TimeScale - 1
  /\ timeLeft = 0
  /\ ~gameOver

\* C6: timeLeft is never negative, and while the round runs it is
\* max(0, ROUND_DURATION - floor(elapsed)).
C6_TimeLeftClamped ==
  /\ timeLeft >= 0
  /\ ~gameOver =>
       timeLeft =
         (IF ROUND_DURATION - (elapsedTime \div TimeScale) > 0
            THEN ROUND_DURATION - (elapsedTime \div TimeScale)
            ELSE 0)

\* C7: once gameOver is true, timeLeft never increases and reaches 0.  The
\* countdown counts as having reached 0 when it is at most 0, so that the
\* negative value of C6 is not what decides this claim.
C7_TimeLeftReachesZero ==
  /\ [][gameOver => timeLeft' <= timeLeft]_vars
  /\ [](gameOver => <>(timeLeft <= 0))

\* C8: the score is a natural number equal to the number of addPoint calls
\* since the start or the last reset; a step with an addPoint call raises it
\* by exactly 1; resetScore makes it 0; it decreases only by resetScore.
C8_ScoreCounts ==
  [][/\ score \in Nat
     /\ score = addPointCalls
     /\ score' = addPointCalls'
     /\ addPointCalls' = addPointCalls + 1 => score' = score + 1
     /\ ResetScore => score' = 0
     /\ score' < score => ResetScore]_vars

\* MaxScore increments from zero gave MaxScore.
C8_Witness ==
  /\ score = MaxScore
  /\ addPointCalls = MaxScore

\* C9: after a begin event scorable equals (entry velocity < 0), whatever it
\* was before; after an end event it is false.
C9_ArmedFollowsLastEvent ==
  /\ lastEvent.kind = "begin" => scorable = (lastEvent.vy < 0)
  /\ lastEvent.kind = "end" => scorable = FALSE

\* A begin event with a velocity that does not arm found the region armed by
\* another body and overwrote the flag.
C9_Witness ==
  /\ lastEvent.kind = "begin"
  /\ lastEvent.armed
  /\ lastEvent.vy >= 0
  /\ ~scorable

\* C10: with several bodies, a body's end event scores if and only if that
\* body's own preceding begin event had negative velocity and its exit
\* velocity is below 1, whatever the other bodies did.
C10_PerBodyScoring ==
  [][\A b \in Bodies, v2 \in Velocity :
       OnCollideEnd(b, v2)
         => ((score' = score + 1)
               <=> (ownEntryDown[b] /\ v2 < 1 * VelocityScale))]_vars

=============================================================================
